---- MODULE Spec2Model ----
(***************************************************************************)
(* State-machine model of unreal-rc's WebSocketTransport                   *)
(* (packages/core/src/transports/ws.ts, kept here as src/unnamed/part_003).*)
(*                                                                         *)
(* One action per entry point or event handler of the class.  A handler    *)
(* runs to completion together with the promise reactions it triggers      *)
(* inside the transport (the .finally() that clears connectPromise and the *)
(* .catch() callbacks attached by request() and by the reconnect timer),   *)
(* since no timer or socket event can be dispatched between them.          *)
(*                                                                         *)
(* Time is abstracted: a timer that is set may fire at any later step.     *)
(***************************************************************************)
EXTENDS Integers, Sequences, FiniteSets, TLC

\* ---------------------------------------------------------------- constants
DEFAULT_RECONNECT_INITIAL_DELAY_MS == 250
DEFAULT_RECONNECT_MAX_DELAY_MS == 5000
DEFAULT_RECONNECT_BACKOFF_FACTOR == 2
DEFAULT_PING_INTERVAL_MS == 25000

\* ------------------------------------------------------------------- bounds
\* Number of request() calls and of scheduled reconnects explored by Spec.
MaxCalls == 2
MaxAttempts == 2
\* The same for SpecBackoff, which follows the backoff sequence to its ceiling.
BackoffCalls == 1
BackoffAttempts == 7
MessageCalls == 2
ConnectCalls == 1
MaxBatch == 2
MaxResponses == 2
MaxOps == 2
MaxHttpCalls == 2
\* Values of maxQueueSize explored.
QueueSizes == {1, 2}
\* Response codes a server frame may carry; NaN stands for a ResponseCode
\* that Number() does not turn into a finite number, and for the statusCode
\* of an error that carries none.
NaN == -1
ResponseCodes == {199, 200, 299, 300, NaN}

VARIABLES
    cfg,              \* the readonly options set by the constructor
    bound,            \* exploration bounds of the behaviour
    socket,           \* this.socket: "none" (undefined) or its readyState
    connectPromise,   \* TRUE while a connection attempt is in flight
    sockets,          \* WebSocket objects created by connect() and not yet opened or given up
    waiters,          \* who awaits the in-flight connectPromise
    connectResult,    \* how the last connectPromise settled, and for whom
    reconnectTimer,   \* TRUE while the reconnect timer is set
    reconnectAttempt,
    delays,           \* delays of the reconnects scheduled since the last open
    pingTimer,        \* TRUE while the ping interval is set
    nextRequestId,
    disposed,
    connectedState,
    calls,            \* one OutboundRequest (and its promise) per request() call
    pendingRequests,  \* Map requestId -> call
    queuedRequests,   \* array of calls
    timers,           \* calls whose request timer is set
    wire,             \* request frames written to the socket, in order
    requests,         \* BatchBuilder.requests
    returned,         \* the ids the builder's methods have returned, in order
    batch,            \* the batch() call: where it is, the response, its results
    transport,        \* UnrealRC.transport as seen through the Transport interface
    ops,              \* the client method calls made so far, each with its position
    log,              \* the calls the client has made on its transport, in order
    httpCalls,        \* one record per HttpTransport.request() call
    controllers       \* HttpTransport.controllers: the calls whose controller is in the set

\* The state of the WebSocket transport.
transportVars == <<cfg, bound, socket, connectPromise, sockets, waiters, connectResult,
                   reconnectTimer, reconnectAttempt, delays, pingTimer, nextRequestId,
                   disposed, connectedState, calls, pendingRequests, queuedRequests,
                   timers, wire>>

\* The state of the client and of a batch builder.
clientVars == <<requests, returned, batch, transport, ops, log>>

\* The state of the HTTP transport.
httpVars == <<httpCalls, controllers>>

vars == <<transportVars, clientVars, httpVars>>

\* The part of the state that sendRequest and the reject helpers work on.
Req == [calls |-> calls, pendingRequests |-> pendingRequests,
        timers |-> timers, wire |-> wire]

Min(a, b) == IF a <= b THEN a ELSE b

RECURSIVE Pow(_, _)
Pow(b, e) == IF e = 0 THEN 1 ELSE b * Pow(b, e - 1)

\* ---------------------------------------------------------------- promises
\* Mutant: the oldest unsettled call is settled instead of the one given.
SettleOldest(r, c, how) ==
    LET live == {d \in DOMAIN r.calls : r.calls[d].outcome = "none"}
        t == IF live = {} THEN c ELSE CHOOSE d \in live : \A e \in live : d <= e
    IN [r EXCEPT !.calls[t].settles = @ + 1,
                 !.calls[t].outcome = IF @ = "none" THEN how ELSE @]

\* request.resolve / request.reject: every invocation is counted, the first
\* one decides the promise.
Settle(r, c, how) ==
    [r EXCEPT !.calls[c].settles = @ + 1,
              !.calls[c].outcome = IF @ = "none" THEN how ELSE @]

RECURSIVE SettleAll(_, _, _)
SettleAll(r, cs, how) ==
    IF cs = <<>> THEN r
    ELSE SettleAll(Settle(r, Head(cs), how), Tail(cs), how)

Range(f) == {f[x] : x \in DOMAIN f}

\* ------------------------------------------------------------- sendRequest
\* this.pendingRequests.set(requestId, request)
MapSet(m, k, v) == [x \in DOMAIN m \cup {k} |-> IF x = k THEN v ELSE m[x]]

\* this.pendingRequests.delete(requestId)
MapDelete(m, k) == [x \in DOMAIN m \ {k} |-> m[x]]

\* Mutant: the call is registered without a request timer.
SendRequestNoTimer(r, c, sock, via) ==
    IF sock # "OPEN" THEN Settle(r, c, "not connected")
    ELSE IF r.calls[c].bad THEN Settle(r, c, "send failed")
    ELSE [r EXCEPT
            !.wire = Append(@, [call |-> c, RequestId |-> r.calls[c].requestId,
                                 via |-> via]),
            !.pendingRequests = MapSet(@, r.calls[c].requestId, c)]

\* sendRequest(request) with the socket in readyState sock.  JSON.stringify /
\* socket.send throw for a body that cannot be serialised (calls[c].bad).
\* via names the caller, request() or flushQueuedRequests(), in the record of
\* the frame written.
SendRequest(r, c, sock, via) ==
    IF sock # "OPEN" THEN Settle(r, c, "not connected")
    ELSE IF r.calls[c].bad THEN Settle(r, c, "send failed")
    ELSE [r EXCEPT
            !.wire = Append(@, [call |-> c, RequestId |-> r.calls[c].requestId,
                                 via |-> via]),
            !.timers = @ \cup {c},
            !.pendingRequests = MapSet(@, r.calls[c].requestId, c)]

\* Mutant: the timer callback rejects but leaves the registry entry.
TimerFiredKeepsEntry(r, c) ==
    Settle([r EXCEPT !.timers = @ \ {c}], c, "timed out")

\* The callback of request.timer.
TimerFired(r, c) ==
    Settle([r EXCEPT !.pendingRequests = MapDelete(@, r.calls[c].requestId),
                     !.timers = @ \ {c}],
           c, "timed out")

\* Mutant: the pending calls are rejected but stay in the registry.
RejectPendingKeepsEntries(r, how) ==
    LET live == Range(r.pendingRequests) IN
    [r EXCEPT
       !.calls = [c \in DOMAIN r.calls |->
                    IF c \in live THEN Settle(r, c, how).calls[c] ELSE r.calls[c]],
       !.timers = @ \ live]

\* Mutant: the registry is not cleared.
ClearPendingKept(m) == m

\* this.pendingRequests.clear()
ClearPending(m) == << >>

\* rejectPendingRequests(message)
RejectPendingRequests(r, how) ==
    LET live == Range(r.pendingRequests) IN
    [r EXCEPT
       !.calls = [c \in DOMAIN r.calls |->
                    IF c \in live THEN Settle(r, c, how).calls[c] ELSE r.calls[c]],
       !.timers = @ \ live,
       !.pendingRequests = ClearPending(@)]

\* Mutant: the buffered calls are dropped without being rejected.
RejectQueuedNone(r, q, how) == r

\* rejectQueuedRequests(message) on the queue q; the queue is empty afterwards.
RejectQueuedRequests(r, q, how) == SettleAll(r, q, how)

\* Mutant: the call shifted off when the flush stops is not put back.
PutBackDropped(q, next) == q

\* this.queuedRequests.unshift(next)
PutBack(q, next) == <<next>> \o q

\* Mutant: a flush that is interrupted leaves the calls it has sent in the queue.
RECURSIVE FlushWithoutShift(_, _, _, _)
FlushWithoutShift(r, q, conn, n) ==
    IF q = << >> THEN [req |-> r, queue |-> q]
    ELSE IF ~conn \/ n = 0 THEN [req |-> r, queue |-> q]
    ELSE LET f == FlushWithoutShift(SendRequest(r, Head(q), "OPEN", "flush"),
                                    Tail(q), conn, n - 1)
         IN [req |-> f.req,
             queue |-> IF f.queue = << >> THEN << >> ELSE <<Head(q)>> \o f.queue]

\* Mutant: the flush reads the head of the queue without removing it.
ShiftKeepsHead(q) == q

\* this.queuedRequests.shift(): the queue without its first element
Shift(q) == Tail(q)

\* flushQueuedRequests(): the loop sends from the head of the queue while the
\* transport is connected and the socket OPEN.  n is the number of iterations
\* for which the socket stays OPEN (a send may make the user agent start
\* closing the socket); the call shifted off at that point is put back.
RECURSIVE FlushQueuedRequests(_, _, _, _)
FlushQueuedRequests(r, q, conn, n) ==
    IF q = << >> THEN [req |-> r, queue |-> q]
    ELSE IF ~conn \/ n = 0 THEN [req |-> r, queue |-> PutBack(Shift(q), Head(q))]
    ELSE FlushQueuedRequests(SendRequest(r, Head(q), "OPEN", "flush"), Shift(q), conn, n - 1)

\* --------------------------------------------------------- scheduleReconnect
\* Math.min(initial * factor ** attempt, max)
ReconnectDelay(attempt) ==
    Min(cfg.reconnectInitialDelayMs * Pow(cfg.reconnectBackoffFactor, attempt),
        cfg.reconnectMaxDelayMs)

\* scheduleReconnect() on t = [timer, attempt, delays]
ScheduleReconnect(t) ==
    IF ~cfg.autoReconnect \/ disposed \/ t.timer THEN t
    ELSE [timer |-> TRUE,
          attempt |-> t.attempt + 1,
          delays |-> Append(t.delays, ReconnectDelay(t.attempt))]

Recon == [timer |-> reconnectTimer, attempt |-> reconnectAttempt, delays |-> delays]

\* A step may schedule a reconnect only below the exploration bound.
CanSchedule == reconnectAttempt < bound.attempts

WouldSchedule == cfg.autoReconnect /\ ~disposed /\ ~reconnectTimer

\* ------------------------------------------------------------------ connect
\* Mutant: the promise of a failed attempt is resolved.
ConnectSettledResolved(how) ==
    IF bound.results THEN [how |-> "resolved", waiters |-> waiters] ELSE connectResult

\* resolve() / reject() of the connectPromise, seen by everyone who awaits
\* it; recorded in the behaviours that keep connect results (bound.results).
ConnectSettled(how) ==
    IF bound.results THEN [how |-> how, waiters |-> waiters] ELSE connectResult

\* Mutant: connect() does not look at connectPromise and opens a new socket.
ConnectAlwaysNew(who) ==
    IF connectedState
      THEN [promise |-> connectPromise, waiters |-> waiters, sockets |-> sockets]
    ELSE [promise |-> TRUE, waiters |-> {who}, sockets |-> sockets + 1]

\* connect() called by who, past the disposed guard: a no-op when connected,
\* the in-flight promise when there is one, a new attempt otherwise.
ConnectBy(who) ==
    IF connectedState
      THEN [promise |-> connectPromise, waiters |-> waiters, sockets |-> sockets]
    ELSE IF connectPromise
      THEN [promise |-> TRUE, waiters |-> waiters \cup {who}, sockets |-> sockets]
    ELSE [promise |-> TRUE, waiters |-> {who}, sockets |-> sockets + 1]

\* connect() called by the user of the transport.
Connect ==
    /\ IF disposed
         THEN UNCHANGED <<connectPromise, sockets, waiters>>
         ELSE /\ connectPromise' = ConnectBy("caller").promise
              /\ waiters' = ConnectBy("caller").waiters
              /\ sockets' = ConnectBy("caller").sockets
    /\ UNCHANGED <<httpVars, clientVars, connectResult, cfg, bound, socket, reconnectTimer, reconnectAttempt, delays,
                   pingTimer, nextRequestId, disposed, connectedState, calls,
                   pendingRequests, queuedRequests, timers, wire>>

\* startPing()
StartPing == cfg.pingIntervalMs > 0

\* Mutant: onOpen does not reset the attempt counter.
KeepAttempt(attempt) == attempt

\* this.reconnectAttempt = 0
ResetAttempt(attempt) == 0

\* onOpen of the in-flight attempt.
ConnectOpen ==
    /\ connectPromise
    /\ \E n \in (IF queuedRequests = << >> THEN {0} ELSE 1..Len(queuedRequests)) :
         LET f == FlushQueuedRequests(Req, queuedRequests, TRUE, n) IN
         /\ socket' = IF f.queue = << >> THEN "OPEN" ELSE "CLOSING"
         /\ queuedRequests' = f.queue
         /\ calls' = f.req.calls
         /\ pendingRequests' = f.req.pendingRequests
         /\ timers' = f.req.timers
         /\ wire' = f.req.wire
    /\ connectedState' = TRUE
    /\ reconnectAttempt' = ResetAttempt(reconnectAttempt)
    /\ delays' = << >>
    /\ pingTimer' = StartPing
    /\ connectPromise' = FALSE
    /\ sockets' = sockets - 1
    /\ waiters' = {}
    /\ connectResult' = ConnectSettled("resolved")
    /\ UNCHANGED <<httpVars, clientVars, cfg, bound, reconnectTimer, nextRequestId, disposed>>

\* Mutant: the .catch() of request() leaves the buffer alone.
CatchKeepsQueue(ws) == FALSE

\* The .catch() that request() puts on connect() runs for a failed attempt
\* that a request() awaits, and rejects the buffer when autoReconnect is off.
CatchRejectsQueue(ws) == "request" \in ws /\ ~cfg.autoReconnect

\* The common part of the three ways an attempt fails: scheduleReconnect(),
\* reject, then .finally() and the .catch() of every waiter.
ConnectFailed ==
    /\ connectPromise
    /\ WouldSchedule => CanSchedule
    /\ LET t1 == ScheduleReconnect(Recon)
           t2 == IF "timer" \in waiters THEN ScheduleReconnect(t1) ELSE t1
           drop == CatchRejectsQueue(waiters)
           r == IF drop
                  THEN RejectQueuedRequests(Req, queuedRequests, "disconnected")
                  ELSE Req
       IN /\ reconnectTimer' = t2.timer
          /\ reconnectAttempt' = t2.attempt
          /\ delays' = t2.delays
          /\ queuedRequests' = IF drop THEN << >> ELSE queuedRequests
          /\ calls' = r.calls
    /\ connectPromise' = FALSE
    /\ sockets' = sockets - 1
    /\ waiters' = {}
    /\ connectResult' = ConnectSettled("rejected")
    /\ UNCHANGED <<httpVars, clientVars, cfg, bound, socket, pingTimer, nextRequestId, disposed,
                   connectedState, pendingRequests, timers, wire>>

\* The connect timeout fires before the socket opens.
ConnectTimeout == ConnectFailed

\* onCloseBeforeOpen
ConnectClosed == ConnectFailed

\* onErrorBeforeOpen
ConnectError == ConnectFailed

\* The callback of reconnectTimer.
ReconnectTimerFired ==
    /\ reconnectTimer
    /\ reconnectTimer' = FALSE
    /\ IF disposed
         THEN UNCHANGED <<connectPromise, sockets, waiters>>
         ELSE /\ connectPromise' = ConnectBy("timer").promise
              /\ waiters' = ConnectBy("timer").waiters
              /\ sockets' = ConnectBy("timer").sockets
    /\ UNCHANGED <<httpVars, clientVars, connectResult, cfg, bound, socket, reconnectAttempt, delays, pingTimer,
                   nextRequestId, disposed, connectedState, calls,
                   pendingRequests, queuedRequests, timers, wire>>

\* ------------------------------------------------------------------ request
\* Mutant: the counter is read but not incremented.
NextIdStuck(n) == n

\* nextRequestId++
NextId(n) == n + 1

\* Mutant: the limit is compared with > instead of >=.
QueueFullOffByOne(q) == Len(q) > cfg.maxQueueSize

\* this.queuedRequests.length >= this.maxQueueSize
QueueFull(q) == Len(q) >= cfg.maxQueueSize

\* Mutant: unshift instead of push.
EnqueueFront(q, c) == <<c>> \o q

\* this.queuedRequests.push(outbound)
Enqueue(q, c) == Append(q, c)

\* this.connectedState && this.socket?.readyState === WebSocket.OPEN
CanSend == connectedState /\ socket = "OPEN"

\* Mutant: the policy is ignored and the call goes on to the buffer.
RejectPolicyIgnored == FALSE

\* this.disconnectedBehavior === "reject"
RejectWhenDisconnected == cfg.disconnectedBehavior = "reject"

\* Mutant: the identifier is the number of the next frame on the wire.
NewCallIdAtSend(b) == [requestId |-> Len(wire) + 1, bad |-> b, outcome |-> "none",
                       status |-> NaN, value |-> "unset", settles |-> 0]

\* The OutboundRequest built by request(), with const requestId = nextRequestId++
NewCall(b) == [requestId |-> nextRequestId, bad |-> b, outcome |-> "none",
               status |-> NaN, value |-> "unset", settles |-> 0]

\* Mutant: request() starts the timeout timer as it builds the call.
TimerAtSubmission(c) == {c}

\* The OutboundRequest literal of request() has no timer: the timers that
\* the submission of call c sets before the call is sent.
TimerOfNewCall(c) == {}

\* request(verb, url, body, options); b: the body cannot be serialised.
Request(b) ==
    /\ Len(calls) < bound.calls
    /\ nextRequestId' = NextId(nextRequestId)
    /\ LET c == Len(calls) + 1
           r0 == [Req EXCEPT !.calls = Append(@, NewCall(b)),
                             !.timers = @ \cup TimerOfNewCall(c)]
       IN
       IF CanSend THEN
          LET r == SendRequest(r0, c, socket, "request") IN
          /\ calls' = r.calls
          /\ pendingRequests' = r.pendingRequests
          /\ timers' = r.timers
          /\ wire' = r.wire
          /\ UNCHANGED <<queuedRequests, connectPromise, sockets, waiters>>
       ELSE IF RejectWhenDisconnected THEN
          /\ calls' = Settle(r0, c, "disconnected").calls
          /\ timers' = r0.timers
          /\ UNCHANGED <<pendingRequests, wire, queuedRequests,
                         connectPromise, sockets, waiters>>
       ELSE IF QueueFull(queuedRequests) THEN
          /\ calls' = Settle(r0, c, "queue limit").calls
          /\ timers' = r0.timers
          /\ UNCHANGED <<pendingRequests, wire, queuedRequests,
                         connectPromise, sockets, waiters>>
       ELSE IF disposed THEN
          \* connect() throws; the .catch() runs
          LET q == Enqueue(queuedRequests, c) IN
          /\ calls' = IF cfg.autoReconnect THEN r0.calls
                      ELSE RejectQueuedRequests(r0, q, "disconnected").calls
          /\ queuedRequests' = IF cfg.autoReconnect THEN q ELSE << >>
          /\ timers' = r0.timers
          /\ UNCHANGED <<pendingRequests, wire, connectPromise, sockets, waiters>>
       ELSE
          /\ calls' = r0.calls
          /\ queuedRequests' = Enqueue(queuedRequests, c)
          /\ connectPromise' = ConnectBy("request").promise
          /\ waiters' = ConnectBy("request").waiters
          /\ sockets' = ConnectBy("request").sockets
          /\ timers' = r0.timers
          /\ UNCHANGED <<pendingRequests, wire>>
    /\ UNCHANGED <<httpVars, clientVars, connectResult, cfg, bound, socket, reconnectTimer, reconnectAttempt, delays,
                   pingTimer, disposed, connectedState>>

\* dispose()
Dispose ==
    /\ disposed' = TRUE
    /\ connectedState' = FALSE
    /\ pingTimer' = FALSE
    /\ reconnectTimer' = FALSE
    /\ LET r1 == RejectPendingRequests(Req, "disposed")
           r2 == RejectQueuedRequests(r1, queuedRequests, "disposed")
       IN /\ calls' = r2.calls
          /\ pendingRequests' = r2.pendingRequests
          /\ timers' = r2.timers
    /\ queuedRequests' = << >>
    /\ socket' = "none"
    /\ UNCHANGED <<httpVars, clientVars, connectResult, cfg, bound, connectPromise, sockets, waiters, reconnectAttempt, delays,
                   nextRequestId, wire>>

\* ---------------------------------------------------------- socket events
\* payload.ResponseBody: absent, or some JSON value
Bodies == {"undefined", "json"}

\* Mutant: 300 counts as success.
IsSuccessUpTo300(code) == code # NaN /\ code >= 200 /\ code <= 300

\* responseCode >= 200 && responseCode < 300
IsSuccess(code) == code # NaN /\ code >= 200 /\ code < 300

\* Mutant: onMessage settles the call but does not clear its timer.
OnMessageKeepsTimer(id, code, body) ==
    /\ socket # "none"
    /\ IF id \in DOMAIN pendingRequests THEN
          LET c == pendingRequests[id]
              r == Settle(Req, c, IF code # NaN /\ code >= 200 /\ code < 300
                                    THEN "resolved" ELSE "remote failure")
          IN /\ pendingRequests' = MapDelete(pendingRequests, id)
             /\ calls' = [r.calls EXCEPT ![c].value = body]
             /\ UNCHANGED timers
       ELSE UNCHANGED <<pendingRequests, timers, calls>>
    /\ UNCHANGED <<httpVars, clientVars, connectResult, cfg, bound, socket, connectPromise, sockets, waiters, reconnectTimer,
                   reconnectAttempt, delays, pingTimer, nextRequestId, disposed,
                   connectedState, queuedRequests, wire>>

\* onMessage for a frame that parses and carries RequestId id, ResponseCode
\* code and ResponseBody body; value is what the promise of the call was
\* resolved with, or the details of the error it was rejected with.
OnMessage(id, code, body) ==
    /\ socket # "none"
    /\ IF id \in DOMAIN pendingRequests THEN
          LET c == pendingRequests[id]
              r == Settle(Req, c, IF IsSuccess(code) THEN "resolved" ELSE "remote failure")
          IN /\ pendingRequests' = MapDelete(pendingRequests, id)
             /\ timers' = timers \ {c}
             /\ calls' = [r.calls EXCEPT
                            ![c].status =
                               IF r.calls[c].settles = 1 /\ ~IsSuccess(code) THEN code ELSE @,
                            ![c].value = IF r.calls[c].settles = 1 THEN body ELSE @]
       ELSE UNCHANGED <<pendingRequests, timers, calls>>
    /\ UNCHANGED <<httpVars, clientVars, connectResult, cfg, bound, socket, connectPromise, sockets, waiters, reconnectTimer,
                   reconnectAttempt, delays, pingTimer, nextRequestId, disposed,
                   connectedState, queuedRequests, wire>>

\* JSON values of a frame's RequestId that are not numbers: booleans, null,
\* the strings "1" and "x", and an absent RequestId.
NonNumbers == {"true", "false", "null", "string 1", "string x", "undefined"}

\* Number(requestIdValue) for a value that is not a number
ToNumber(v) ==
    CASE v = "true" -> 1
      [] v = "false" -> 0
      [] v = "null" -> 0
      [] v = "string 1" -> 1
      [] OTHER -> NaN

\* onMessage for a frame whose RequestId is not a number but is turned into a
\* finite one by Number(): it goes on as a frame with that identifier.
OnMessageCoerced(v, code, body) ==
    /\ ToNumber(v) # NaN
    /\ OnMessage(ToNumber(v), code, body)

\* onMessage for a frame that is not text, is not JSON, or whose RequestId is
\* not turned into a finite number by Number().
OnGarbage ==
    /\ socket # "none"
    /\ UNCHANGED vars

\* The request timer of call c fires.
RequestTimeout(c) ==
    /\ c \in timers
    /\ LET r == TimerFired(Req, c) IN
       /\ calls' = r.calls
       /\ pendingRequests' = r.pendingRequests
       /\ timers' = r.timers
    /\ UNCHANGED <<httpVars, clientVars, connectResult, cfg, bound, socket, connectPromise, sockets, waiters, reconnectTimer,
                   reconnectAttempt, delays, pingTimer, nextRequestId, disposed,
                   connectedState, queuedRequests, wire>>

\* onClose of the attached socket.
OnClose ==
    /\ socket # "none"
    /\ (~disposed /\ WouldSchedule) => CanSchedule
    /\ connectedState' = FALSE
    /\ pingTimer' = FALSE
    /\ socket' = "none"
    /\ LET r == RejectPendingRequests(Req, "disconnected")
           t == IF ~disposed THEN ScheduleReconnect(Recon) ELSE Recon
       IN /\ calls' = r.calls
          /\ pendingRequests' = r.pendingRequests
          /\ timers' = r.timers
          /\ reconnectTimer' = t.timer
          /\ reconnectAttempt' = t.attempt
          /\ delays' = t.delays
    /\ UNCHANGED <<httpVars, clientVars, connectResult, cfg, bound, connectPromise, sockets, waiters, nextRequestId, disposed,
                   queuedRequests, wire>>

\* The attached socket starts its closing handshake: readyState CLOSING.
SocketClosing ==
    /\ socket = "OPEN"
    /\ socket' = "CLOSING"
    /\ UNCHANGED <<httpVars, clientVars, connectResult, cfg, bound, connectPromise, sockets, waiters, reconnectTimer,
                   reconnectAttempt, delays, pingTimer, nextRequestId, disposed,
                   connectedState, calls, pendingRequests, queuedRequests,
                   timers, wire>>

\* The interval callback writes a ping frame: this.socket is set and OPEN.
PingSends == socket = "OPEN"

\* The ping interval fires; a ping frame is written when the socket is OPEN.
PingTick ==
    /\ pingTimer
    /\ UNCHANGED vars

\* ============================================================== client.ts
\* new BatchBuilder(), and batch() before it has sent anything.
InitBatch ==
    /\ requests = << >>
    /\ returned = << >>
    /\ batch = [pc |-> "configure", response |-> << >>, results |-> << >>]

\* new UnrealRC() with the default options: createTransport makes a
\* WebSocketTransport, which is connectable and not connected.
InitUnrealRC ==
    /\ transport = [connectable |-> TRUE, connected |-> FALSE]
    /\ ops = << >>
    /\ log = << >>

\* ----------------------------------------------------------- BatchBuilder
\* The builder's public methods.
Kinds == {"call", "getProperty", "setProperty", "describe", "searchAssets", "request"}

\* The URL each method passes to add(); request() passes its caller's URL.
UrlOf(kind) ==
    CASE kind = "call" -> "/remote/object/call"
      [] kind \in {"getProperty", "setProperty"} -> "/remote/object/property"
      [] kind = "describe" -> "/remote/object/describe"
      [] kind = "searchAssets" -> "/remote/search/assets"
      [] kind = "request" -> "/remote/info"

\* Mutant: identifiers are counted from one.
RequestIdFromOne(reqs) == Len(reqs) + 1

\* const requestId = this.requests.length
RequestIdOf(reqs) == Len(reqs)

\* The entry add() builds; Body stands for the body the method has parsed.
Entry(kind, id) == [RequestId |-> id, URL |-> UrlOf(kind), Body |-> kind]

\* One of the builder's methods is called inside configure(); valid: the
\* method's schema and BatchRequestItemSchema accept the arguments. A parse
\* that fails throws before anything is pushed.
Add(kind, valid) ==
    /\ batch.pc = "configure"
    /\ Len(requests) < MaxBatch
    /\ IF valid
         THEN LET requestId == RequestIdOf(requests) IN
              /\ requests' = Append(requests, Entry(kind, requestId))
              /\ returned' = Append(returned, requestId)
         ELSE UNCHANGED <<requests, returned>>
    /\ UNCHANGED <<httpVars, transportVars, batch, transport, ops, log>>

\* ------------------------------------------------------------------ batch
\* The items a server can answer with: an id of the batch or one past it.
ResponseItems ==
    {[RequestId |-> i, ResponseCode |-> c.code, ResponseBody |-> c.body] :
       i \in 0..MaxBatch,
       c \in {[code |-> 200, body |-> "json"], [code |-> 404, body |-> "undefined"]}}

SeqsUpTo(S, n) == UNION {[1..k -> S] : k \in 0..n}

\* The responses BatchResponseSchema accepts: Responses is optional.
BatchResponses ==
    {[has |-> FALSE, Responses |-> << >>]} \cup
    {[has |-> TRUE, Responses |-> r] : r \in SeqsUpTo(ResponseItems, MaxResponses)}

\* Mutant: the response at the position of the sub-call.
ByPosition(items, id) == IF id + 1 \in DOMAIN items THEN id + 1 ELSE 0

\* byRequestId.get(id) after the loop of set(): the index of the last item
\* with this id, 0 for none.
ByRequestId(items, id) ==
    LET idx == {i \in DOMAIN items : items[i].RequestId = id} IN
    IF idx = {} THEN 0 ELSE CHOOSE i \in idx : \A j \in idx : j <= i

\* The result of one sub-call.
BatchResult(request, items) ==
    LET m == ByRequestId(items, request.RequestId) IN
    [requestId |-> request.RequestId,
     statusCode |-> IF m = 0 THEN 0 ELSE items[m].ResponseCode,
     body |-> IF m = 0 THEN "undefined" ELSE items[m].ResponseBody,
     request |-> request]

\* Mutant: sub-calls without a response entry are left out.
CorrelateMatchedOnly(reqs, response) ==
    LET items == IF response.has THEN response.Responses ELSE << >>
        matched == SelectSeq(reqs, LAMBDA r : ByRequestId(items, r.RequestId) # 0)
    IN [i \in DOMAIN matched |-> BatchResult(matched[i], items)]

\* correlateBatchResponses(requests, response)
CorrelateBatchResponses(reqs, response) ==
    LET items == IF response.has THEN response.Responses ELSE << >>
    IN [i \in DOMAIN reqs |-> BatchResult(reqs[i], items)]

\* configure() has returned: toRequestBody(), getRequests(), send().
BatchSend ==
    /\ batch.pc = "configure"
    /\ batch' = [batch EXCEPT !.pc = "sent"]
    /\ UNCHANGED <<httpVars, transportVars, requests, returned, transport, ops, log>>

\* send() resolves with a response that BatchResponseSchema accepts.
BatchResponse(response) ==
    /\ batch.pc = "sent"
    /\ batch' = [pc |-> "done", response |-> response,
                 results |-> CorrelateBatchResponses(requests, response)]
    /\ UNCHANGED <<httpVars, transportVars, requests, returned, transport, ops, log>>

\* send() rejects: the transport failed or the response does not parse.
BatchFails ==
    /\ batch.pc = "sent"
    /\ batch' = [batch EXCEPT !.pc = "failed"]
    /\ UNCHANGED <<httpVars, transportVars, requests, returned, transport, ops, log>>

\* ---------------------------------------------------------------- UnrealRC
\* The transports a client can be given: connectable ones (connect() and a
\* boolean connected, like WebSocketTransport) in either state, and one that
\* is not connectable (like HttpTransport).
Transports ==
    {[connectable |-> TRUE, connected |-> c] : c \in BOOLEAN} \cup
    {[connectable |-> FALSE, connected |-> FALSE]}

\* Mutant: the request is built and sent without being parsed.
ParseSkipped(valid) == TRUE

\* XxxRequestSchema.parse(...) returns; it throws when the input is not valid.
ParseOk(valid) == valid

\* Mutant: a connected transport is connected again.
NeedsConnectWhenConnectable == transport.connectable

\* isConnectableTransport(this.transport) && !this.transport.connected
NeedsConnect == transport.connectable /\ ~transport.connected

\* A method of the client is called (call, getProperty, setProperty, describe,
\* searchAssets, event, thumbnail, ...): it parses its input, then send() runs
\* ensureConnected() up to its first await. connect: what has become of the
\* connect() this call made on the transport.
ClientCall(valid) ==
    /\ Len(ops) < MaxOps
    /\ LET o == Len(ops) + 1 IN
       IF ~ParseOk(valid) THEN
          /\ ops' = Append(ops, [pc |-> "invalid", connect |-> "not called"])
          /\ UNCHANGED log
       ELSE IF NeedsConnect THEN
          /\ ops' = Append(ops, [pc |-> "connecting", connect |-> "pending"])
          /\ log' = Append(log, [op |-> o, method |-> "connect"])
       ELSE
          /\ ops' = Append(ops, [pc |-> "ensured", connect |-> "not called"])
          /\ UNCHANGED log
    /\ UNCHANGED <<httpVars, transportVars, requests, returned, batch, transport>>

\* The connect() that call o awaits resolves.
ConnectResolved(o) ==
    /\ ops[o].pc = "connecting"
    /\ ops' = [ops EXCEPT ![o] = [pc |-> "ensured", connect |-> "resolved"]]
    /\ transport' = [transport EXCEPT !.connected = TRUE]
    /\ UNCHANGED <<httpVars, transportVars, requests, returned, batch, log>>

\* The connect() that call o awaits rejects: send() rejects with its error.
ConnectRejected(o) ==
    /\ ops[o].pc = "connecting"
    /\ ops' = [ops EXCEPT ![o] = [pc |-> "failed", connect |-> "rejected"]]
    /\ UNCHANGED <<httpVars, transportVars, requests, returned, batch, transport, log>>

\* send() of call o continues after await this.ensureConnected().
ClientRequest(o) ==
    /\ ops[o].pc = "ensured"
    /\ ops' = [ops EXCEPT ![o].pc = "requested"]
    /\ log' = Append(log, [op |-> o, method |-> "request"])
    /\ UNCHANGED <<httpVars, transportVars, requests, returned, batch, transport>>

\* transport.request() of call o settles; ok: it resolved and the response
\* passed the response schema.
RequestSettled(o, ok) ==
    /\ ops[o].pc = "requested"
    /\ ops' = [ops EXCEPT ![o].pc = IF ok THEN "resolved" ELSE "failed"]
    /\ UNCHANGED <<httpVars, transportVars, requests, returned, batch, transport, log>>

\* The connected flag of a connectable transport changes on its own: the
\* channel is lost, or comes back by a reconnect.
ConnectedChanges ==
    /\ transport.connectable
    /\ transport' = [transport EXCEPT !.connected = ~@]
    /\ UNCHANGED <<httpVars, transportVars, requests, returned, batch, ops, log>>

\* ====================================================== transports/http.ts
\* new HttpTransport(): no call in flight.
InitHttp ==
    /\ httpCalls = << >>
    /\ controllers = {}

\* The status codes a server answers with; response.ok is status in 200..299.
HttpStatuses == {200, 404}

\* Mutant: the timer aborts every controller of the transport.
AbortAll(hc, c) == [d \in DOMAIN hc |-> [hc[d] EXCEPT !.aborted = TRUE]]

\* controller.abort() of call c
Abort(hc, c) == [hc EXCEPT ![c].aborted = TRUE]

\* this.controllers.delete(controller) in the finally block of call c
Finally(cs, c) == cs \ {c}

\* The promise of call c settles and the finally block runs: the timer is
\* cleared and the controller removed from the set.
HttpSettle(hc, c, how, code) ==
    [hc EXCEPT ![c].pc = "done", ![c].outcome = how, ![c].statusCode = code,
               ![c].timer = FALSE]

\* request(verb, url, body, options) up to its first await. positive:
\* timeoutMs > 0; bad: new URL() or JSON.stringify() throws, which happens
\* before the try block, so the call rejects with that error and the finally
\* block does not run.
HttpRequest(positive, bad) ==
    /\ Len(httpCalls) < MaxHttpCalls
    /\ LET c == Len(httpCalls) + 1 IN
       /\ controllers' = controllers \cup {c}
       /\ httpCalls' = Append(httpCalls,
            [pc |-> IF bad THEN "done" ELSE "fetch",
             timeout |-> positive, timer |-> positive,
             aborted |-> FALSE, fired |-> FALSE, response |-> 0,
             outcome |-> IF bad THEN "threw" ELSE "none", statusCode |-> NaN])
    /\ UNCHANGED <<transportVars, clientVars>>

\* fetch() of call c resolves with a response of this status.
HttpFetched(c, status) ==
    /\ httpCalls[c].pc = "fetch" /\ ~httpCalls[c].aborted
    /\ httpCalls' = [httpCalls EXCEPT ![c].pc = "body", ![c].response = status]
    /\ UNCHANGED <<transportVars, clientVars, controllers>>

\* fetch() of call c rejects with a network error.
HttpFetchFailed(c) ==
    /\ httpCalls[c].pc = "fetch" /\ ~httpCalls[c].aborted
    /\ httpCalls' = HttpSettle(httpCalls, c, "failed", NaN)
    /\ controllers' = Finally(controllers, c)
    /\ UNCHANGED <<transportVars, clientVars>>

\* parsePayload() of call c ends; parses: the body was read and, for JSON,
\* parsed.
HttpBody(c, parses) ==
    /\ httpCalls[c].pc = "body" /\ ~httpCalls[c].aborted
    /\ httpCalls' =
         IF ~parses THEN HttpSettle(httpCalls, c, "failed", NaN)
         ELSE IF httpCalls[c].response \notin 200..299
           THEN HttpSettle(httpCalls, c, "status", httpCalls[c].response)
         ELSE HttpSettle(httpCalls, c, "resolved", NaN)
    /\ controllers' = Finally(controllers, c)
    /\ UNCHANGED <<transportVars, clientVars>>

\* The timeout timer of call c fires.
HttpTimerFired(c) ==
    /\ httpCalls[c].timer
    /\ httpCalls' = [Abort(httpCalls, c) EXCEPT ![c].timer = FALSE, ![c].fired = TRUE]
    /\ UNCHANGED <<transportVars, clientVars, controllers>>

\* fetch() or the body read of call c rejects because its signal is aborted:
\* the catch block finds controller.signal.aborted.
HttpAborted(c) ==
    /\ httpCalls[c].pc \in {"fetch", "body"} /\ httpCalls[c].aborted
    /\ httpCalls' = HttpSettle(httpCalls, c, "timed out", NaN)
    /\ controllers' = Finally(controllers, c)
    /\ UNCHANGED <<transportVars, clientVars>>

RECURSIVE AbortEach(_, _)
AbortEach(hc, cs) ==
    IF cs = {} THEN hc
    ELSE LET c == CHOOSE x \in cs : TRUE IN AbortEach(Abort(hc, c), cs \ {c})

\* dispose() of the HTTP transport
HttpDispose ==
    /\ httpCalls' = AbortEach(httpCalls, controllers)
    /\ controllers' = {}
    /\ UNCHANGED <<transportVars, clientVars>>

\* ------------------------------------------------------------ specification
DefaultCfg == [autoReconnect |-> TRUE,
               disconnectedBehavior |-> "queue",
               maxQueueSize |-> 1,
               pingIntervalMs |-> DEFAULT_PING_INTERVAL_MS,
               reconnectInitialDelayMs |-> DEFAULT_RECONNECT_INITIAL_DELAY_MS,
               reconnectMaxDelayMs |-> DEFAULT_RECONNECT_MAX_DELAY_MS,
               reconnectBackoffFactor |-> DEFAULT_RECONNECT_BACKOFF_FACTOR]

Configs == {[DefaultCfg EXCEPT !.autoReconnect = a,
                               !.disconnectedBehavior = d,
                               !.maxQueueSize = m] :
              a \in BOOLEAN, d \in {"queue", "reject"}, m \in QueueSizes}

\* The state after the constructor.
InitTransport ==
    /\ socket = "none"
    /\ connectPromise = FALSE
    /\ sockets = 0
    /\ waiters = {}
    /\ connectResult = [how |-> "none", waiters |-> {}]
    /\ reconnectTimer = FALSE
    /\ reconnectAttempt = 0
    /\ delays = << >>
    /\ pingTimer = FALSE
    /\ nextRequestId = 1
    /\ disposed = FALSE
    /\ connectedState = FALSE
    /\ calls = << >>
    /\ pendingRequests = << >>
    /\ queuedRequests = << >>
    /\ timers = {}
    /\ wire = << >>

Init ==
    /\ cfg \in Configs
    /\ bound = [calls |-> MaxCalls, attempts |-> MaxAttempts, bodies |-> {"json"},
                results |-> FALSE]
    /\ InitTransport
    /\ InitBatch
    /\ InitUnrealRC
    /\ InitHttp

Ids == 0..(bound.calls + 1)

Next ==
    \/ Connect
    \/ ConnectOpen
    \/ ConnectTimeout
    \/ ConnectClosed
    \/ ConnectError
    \/ ReconnectTimerFired
    \/ \E b \in BOOLEAN : Request(b)
    \/ Dispose
    \/ \E id \in Ids, code \in ResponseCodes, body \in bound.bodies :
         OnMessage(id, code, body)
    \/ \E v \in NonNumbers, code \in ResponseCodes, body \in bound.bodies :
         OnMessageCoerced(v, code, body)
    \/ OnGarbage
    \/ \E c \in DOMAIN calls : RequestTimeout(c)
    \/ OnClose
    \/ SocketClosing
    \/ PingTick

Spec == Init /\ [][Next]_vars

\* ================================================================= claims
Writes(w, c) == Cardinality({i \in DOMAIN w : w[i].call = c})
Settled(c) == calls[c].outcome # "none"
Live == Range(pendingRequests) \cup Range(queuedRequests)

\* C2: every call's request frame is written at most once, and a call that
\* has been written or settled is not written in any later step.
C2_WrittenAtMostOnce ==
    /\ [](\A c \in DOMAIN calls : Writes(wire, c) <= 1)
    /\ [][\A c \in DOMAIN calls :
            (Writes(wire, c) > 0 \/ Settled(c)) => Writes(wire', c) = Writes(wire, c)]_vars

\* C2 witness: call 1 was written and rejected by a disconnect, and call 2
\* was buffered and written by the flush of a later connection.
C2_Witness ==
    /\ Len(wire) = 2
    /\ wire[1].call = 1 /\ calls[1].outcome = "disconnected"
    /\ wire[2].call = 2 /\ wire[2].via = "flush" /\ 2 \in timers

\* What dispose() has done when it returns.
DisposePost ==
    /\ pendingRequests' = << >>
    /\ queuedRequests' = << >>
    /\ \A c \in DOMAIN calls :
         IF c \in Live
           THEN /\ calls[c].settles = 0
                /\ calls'[c].settles = 1
                /\ calls'[c].outcome = "disposed"
           ELSE calls'[c] = calls[c]

\* C3: in every reachable state, dispose() settles each call that is pending
\* or buffered exactly once (it was not settled before), with the disposal
\* error, settles no other call, and leaves registry and buffer empty.
C3_DisposeSettlesAll == ~ENABLED (Dispose /\ ~DisposePost)

\* C3 witness: dispose() has rejected a call that was pending (written) and a
\* call that was buffered (never written).
C3_Witness ==
    /\ disposed
    /\ \E c, d \in DOMAIN calls :
         /\ calls[c].outcome = "disposed" /\ Writes(wire, c) = 1
         /\ calls[d].outcome = "disposed" /\ Writes(wire, d) = 0

\* C4: resolve or reject is invoked at most once for every call.
C4_SettledAtMostOnce == \A c \in DOMAIN calls : calls[c].settles <= 1

\* C4 witness: one call was resolved by its response frame, another one timed
\* out, and the socket was closed and the transport disposed afterwards.
C4_Witness ==
    /\ disposed
    /\ \E c, d \in DOMAIN calls :
         /\ calls[c].outcome = "resolved"
         /\ calls[d].outcome = "timed out"

\* C5: identifiers are handed out in strictly increasing order, the next one
\* is above all handed out, every registry entry is filed under the identifier
\* of its call, no two entries are for the same call, and the identifier the
\* next call gets has no live entry.
C5_IdentifiersUnique ==
    /\ \A c, d \in DOMAIN calls : c < d => calls[c].requestId < calls[d].requestId
    /\ \A c \in DOMAIN calls : calls[c].requestId < nextRequestId
    /\ \A id \in DOMAIN pendingRequests : calls[pendingRequests[id]].requestId = id
    /\ \A id, jd \in DOMAIN pendingRequests :
         pendingRequests[id] = pendingRequests[jd] => id = jd
    /\ nextRequestId \notin DOMAIN pendingRequests

\* C5 witness: two calls are live in the registry at once.
C5_Witness == Cardinality(DOMAIN pendingRequests) = 2

\* C6 as stated: identifiers are assigned when a frame is written, so the
\* next identifier is one more than the number of frames written and the
\* frames carry 1, 2, 3, ... in send order.
C6_AssignedAtSend ==
    /\ nextRequestId = Len(wire) + 1
    /\ \A i \in DOMAIN wire : wire[i].RequestId = i

\* C6 amended: identifiers are assigned at submission: the k-th call of
\* request() holds identifier k from then on, whether it is sent, buffered or
\* rejected; a frame carries the identifier of its call, and the identifiers
\* on the wire are strictly increasing in send order.
C6_AssignedAtSubmission ==
    /\ nextRequestId = Len(calls) + 1
    /\ \A c \in DOMAIN calls : calls[c].requestId = c
    /\ \A i \in DOMAIN wire : wire[i].RequestId = calls[wire[i].call].requestId
    /\ \A i, j \in DOMAIN wire : i < j => wire[i].RequestId < wire[j].RequestId

\* C6 witness: call 1 was rejected without being sent, and call 2, buffered
\* and then flushed, is the first frame on the wire, with identifier 2.
C6_Witness ==
    /\ Len(calls) = 2 /\ Settled(1) /\ Writes(wire, 1) = 0
    /\ Len(wire) = 1 /\ wire[1].RequestId = 2 /\ wire[1].via = "flush"

\* request() finds the channel unavailable and the buffer at its capacity.
Overflowing ==
    /\ ~CanSend
    /\ cfg.disconnectedBehavior = "queue"
    /\ Len(queuedRequests) >= cfg.maxQueueSize

\* What request() has done then: the new call is rejected with the capacity
\* error, the buffer and every other call are as before.
OverflowPost ==
    LET c == Len(calls) + 1 IN
    /\ calls'[c].outcome = "queue limit"
    /\ calls'[c].settles = 1
    /\ queuedRequests' = queuedRequests
    /\ \A d \in DOMAIN calls : calls'[d] = calls[d]
    /\ UNCHANGED <<pendingRequests, timers, wire>>

\* C7: under the queue policy, a call submitted while the channel is
\* unavailable and the buffer holds maxQueueSize calls is rejected at once with
\* the capacity error; the buffered calls stay buffered, in order, and
\* unsettled, and the buffer never holds a settled call.
C7_OverflowRejectsNewest ==
    /\ \A d \in Range(queuedRequests) : ~Settled(d)
    /\ Overflowing => \A b \in BOOLEAN : ~ENABLED (Request(b) /\ ~OverflowPost)

\* C7 witness: a call was rejected with the capacity error and the buffer
\* still holds maxQueueSize unsettled calls.
C7_Witness ==
    /\ \E c \in DOMAIN calls : calls[c].outcome = "queue limit"
    /\ Len(queuedRequests) = cfg.maxQueueSize
    /\ \A d \in Range(queuedRequests) : ~Settled(d)

\* C8: the buffer is in submission order, the frames on the wire are in
\* submission order, and every call written was submitted before every call
\* that is still buffered.
C8_FifoOrder ==
    /\ \A i, j \in DOMAIN queuedRequests : i < j => queuedRequests[i] < queuedRequests[j]
    /\ \A i, j \in DOMAIN wire : i < j => wire[i].call < wire[j].call
    /\ \A i \in DOMAIN wire, j \in DOMAIN queuedRequests : wire[i].call < queuedRequests[j]

\* C8 witness: two buffered calls were flushed in submission order by a
\* connection that opened after an earlier attempt had failed (its reconnect
\* timer is still set).
C8_Witness ==
    /\ Len(wire) = 2
    /\ wire[1].call = 1 /\ wire[1].via = "flush"
    /\ wire[2].call = 2 /\ wire[2].via = "flush"
    /\ reconnectTimer

\* The delay sequence of the specification for 250 / 2 / 5000.
ExpectedDelay(i) ==
    IF i <= 6 THEN <<250, 500, 1000, 2000, 4000, 5000>>[i] ELSE 5000

\* C9: with initialDelay=250, factor=2, max=5000 the i-th reconnect scheduled
\* since the last successful open (or since construction) has the i-th delay
\* of 250, 500, 1000, 2000, 4000, 5000, 5000, ...; none is above 5000.
C9_BackoffSequence ==
    \A i \in DOMAIN delays : delays[i] = ExpectedDelay(i) /\ delays[i] <= 5000

\* C9 witness: seven reconnects in a row were scheduled, the last two at the ceiling.
C9_Witness == Len(delays) = 7 /\ delays[6] = 5000 /\ delays[7] = 5000

\* What the timer callback of call c has done.
TimeoutPost(c) ==
    /\ calls'[c].outcome = "timed out"
    /\ calls'[c].settles = 1
    /\ calls[c].requestId \notin DOMAIN pendingRequests'
    /\ c \notin timers'

\* C10: when the timer of a written, unanswered call fires, the call is
\* rejected with the timeout error and its registry entry removed; a frame
\* that arrives for the identifier of a timed-out call changes nothing.
C10_TimeoutSettlesAndRemoves ==
    /\ \A c \in timers : ~ENABLED (RequestTimeout(c) /\ ~TimeoutPost(c))
    /\ \A c \in DOMAIN calls :
         calls[c].outcome = "timed out" =>
           \A code \in ResponseCodes :
             \A body \in Bodies :
               ~ENABLED (OnMessage(calls[c].requestId, code, body) /\ vars' # vars)

\* C10 witness: a call has timed out while the socket stays attached, so a
\* late frame for it can still arrive.
C10_Witness ==
    \E c \in DOMAIN calls :
      /\ calls[c].outcome = "timed out"
      /\ socket = "OPEN"
      /\ ENABLED OnMessage(calls[c].requestId, 200, "undefined")

\* ---------------------------------------------------------------- SpecBackoff
\* The default options, followed for BackoffAttempts consecutive failures.
InitBackoff ==
    /\ cfg \in {[DefaultCfg EXCEPT !.maxQueueSize = m] : m \in QueueSizes}
    /\ bound = [calls |-> BackoffCalls, attempts |-> BackoffAttempts,
                bodies |-> {"json"},
                results |-> FALSE]
    /\ InitTransport
    /\ InitBatch
    /\ InitUnrealRC
    /\ InitHttp

SpecBackoff == InitBackoff /\ [][Next]_vars

\* ------------------------------------------------------------------ FairSpec
\* Timers that are set fire, and a connection attempt ends (it opens, fails,
\* or its connect timeout fires); a server that can be reached is reached.
Fairness ==
    /\ WF_vars(ReconnectTimerFired)
    /\ \A c \in 1..MaxCalls : WF_vars(RequestTimeout(c))
    /\ WF_vars(ConnectOpen \/ ConnectTimeout)
    /\ SF_vars(ConnectOpen)
    /\ WF_vars(OnClose)

FairSpec == Spec /\ Fairness

\* C1 as stated: every call submitted through request() is eventually settled.
C1_EventuallySettled ==
    \A c \in 1..MaxCalls :
      [](c \in DOMAIN calls => <>(c \in DOMAIN calls /\ calls[c].outcome # "none"))

\* C11 as stated: once dispose() has run, a further dispose() changes no
\* variable of the transport and settles no call, whatever happened in between.
C11_SecondDisposeNoOp == disposed => ~ENABLED (Dispose /\ vars' # vars)

\* C12: at most one socket is being opened at any time, and exactly one while
\* connectPromise is set; connect() changes nothing when the transport is
\* connected; on a transport that is not disposed, connect() during an attempt
\* opens no socket and joins the waiters of that attempt; and the end of the
\* attempt, open or failure, releases all its waiters together.
C12_SingleFlight ==
    /\ sockets = (IF connectPromise THEN 1 ELSE 0)
    /\ connectedState => ~ENABLED (Connect /\ vars' # vars)
    /\ (connectPromise /\ ~connectedState /\ ~disposed) =>
         ~ENABLED (Connect /\ ~(/\ sockets' = sockets
                                /\ connectPromise'
                                /\ waiters' = waiters \cup {"caller"}))
    /\ ~ENABLED (ConnectOpen /\ (waiters' # {} \/ connectPromise'))
    /\ ~ENABLED (ConnectFailed /\ (waiters' # {} \/ connectPromise'))

\* C12 witness: one attempt is in flight and is awaited by a connect() caller,
\* by a buffered request() and by the reconnect timer's callback.
C12_Witness ==
    /\ connectPromise /\ sockets = 1
    /\ waiters = {"caller", "request", "timer"}

\* What onClose has done when it returns.
ClosePost ==
    /\ ~connectedState'
    /\ ~pingTimer'
    /\ socket' = "none"
    /\ pendingRequests' = << >>
    /\ timers' \cap Range(pendingRequests) = {}
    /\ \A c \in DOMAIN calls :
         IF c \in Range(pendingRequests)
           THEN calls'[c].outcome = "disconnected" /\ calls'[c].settles = 1
           ELSE calls'[c] = calls[c]
    /\ queuedRequests' = queuedRequests
    /\ wire' = wire
    /\ (cfg.autoReconnect /\ ~disposed) => reconnectTimer'
    /\ ~cfg.autoReconnect => ~reconnectTimer'

\* C13: whenever the attached socket closes, the transport is not connected
\* afterwards, the ping is stopped, every pending call is rejected once with
\* the disconnect error and removed, nothing is written or moved to the
\* buffer, and a reconnect timer is set when auto-reconnect is on and the
\* transport not disposed.
C13_CloseRejectsPending == ~ENABLED (OnClose /\ ~ClosePost)

\* C13 witness: the socket of a connected transport closed with a call
\* pending; the call is rejected and a reconnect is scheduled.
C13_Witness ==
    /\ ~connectedState /\ socket = "none" /\ ~pingTimer /\ ~disposed
    /\ reconnectTimer /\ delays # << >>
    /\ \E c \in DOMAIN calls :
         calls[c].outcome = "disconnected" /\ Writes(wire, c) = 1

\* What request() has done when it returns under the reject policy with the
\* channel not open.
RejectPost ==
    LET c == Len(calls) + 1 IN
    /\ Len(calls') = c
    /\ calls'[c].outcome = "disconnected" /\ calls'[c].settles = 1
    /\ \A d \in DOMAIN calls : calls'[d] = calls[d]
    /\ queuedRequests' = << >>
    /\ UNCHANGED <<pendingRequests, timers, wire, connectPromise, sockets,
                   waiters, reconnectTimer>>

\* C14: under the reject policy the buffer is empty in every reachable state,
\* and a call submitted while the channel is not open is rejected within
\* request() with the disconnected error: it is neither buffered nor written,
\* and no connection attempt is started for it.
C14_RejectNeverBuffers ==
    cfg.disconnectedBehavior = "reject" =>
      /\ queuedRequests = << >>
      /\ ~CanSend => \A b \in BOOLEAN : ~ENABLED (Request(b) /\ ~RejectPost)

\* C14 witness: under the reject policy a call was rejected as disconnected
\* without having been written, while a later call of the same transport was
\* sent on the open channel.
C14_Witness ==
    /\ cfg.disconnectedBehavior = "reject"
    /\ \E c \in DOMAIN calls :
         calls[c].outcome = "disconnected" /\ Writes(wire, c) = 0
    /\ \E c \in DOMAIN calls : Writes(wire, c) = 1

\* ---------------------------------------------------------------- SpecMessage
\* The default options with a buffer of two, and frames with and without a
\* ResponseBody.
InitMessage ==
    /\ cfg = [DefaultCfg EXCEPT !.maxQueueSize = 2]
    /\ bound = [calls |-> MessageCalls, attempts |-> MaxAttempts, bodies |-> Bodies,
             results |-> FALSE]
    /\ InitTransport
    /\ InitBatch
    /\ InitUnrealRC
    /\ InitHttp

SpecMessage == InitMessage /\ [][Next]_vars

\* What onMessage has done with a frame for the pending identifier id.
MessagePost(id, code, body) ==
    LET c == pendingRequests[id] IN
    /\ id \notin DOMAIN pendingRequests'
    /\ \A other \in DOMAIN pendingRequests \ {id} :
         /\ other \in DOMAIN pendingRequests'
         /\ pendingRequests'[other] = pendingRequests[other]
    /\ c \notin timers'
    /\ calls'[c].settles = 1
    /\ calls'[c].value = body
    /\ IF code \in 200..299
         THEN calls'[c].outcome = "resolved" /\ calls'[c].status = NaN
         ELSE calls'[c].outcome = "remote failure" /\ calls'[c].status = code
    /\ \A d \in DOMAIN calls \ {c} : calls'[d] = calls[d]

\* C15: a frame whose identifier is in the pending registry removes that entry
\* and its timer and settles the call once: resolved with the frame's body
\* when the status code is in 200..299, otherwise rejected with an error that
\* carries the status code and the body as details (no status code when the
\* frame's code is not a finite number). Other entries are untouched.
C15_FrameSettlesPending ==
    \A id \in DOMAIN pendingRequests, code \in ResponseCodes, body \in Bodies :
      ~ENABLED (OnMessage(id, code, body) /\ ~MessagePost(id, code, body))

\* C15 witness: of two calls written on the same channel, the second was
\* answered first with code 300 and a body and is rejected with both, the
\* first was then resolved with an absent body, and the registry is empty.
C15_Witness ==
    /\ Len(calls) = 2 /\ pendingRequests = << >> /\ socket = "OPEN"
    /\ calls[1].outcome = "resolved" /\ calls[1].value = "undefined"
    /\ calls[2].outcome = "remote failure" /\ calls[2].status = 300
    /\ calls[2].value = "json"

\* ------------------------------------------------------------------ SpecBatch
\* One batch() call: the builder is filled, the request sent and answered.
InitBatchSpec ==
    /\ cfg = DefaultCfg
    /\ bound = [calls |-> 0, attempts |-> 0, bodies |-> Bodies,
             results |-> FALSE]
    /\ InitTransport
    /\ InitBatch
    /\ InitUnrealRC
    /\ InitHttp

NextBatch ==
    \/ \E kind \in Kinds, valid \in BOOLEAN : Add(kind, valid)
    \/ BatchSend
    \/ \E response \in BatchResponses : BatchResponse(response)
    \/ BatchFails

SpecBatch == InitBatchSpec /\ [][NextBatch]_vars

\* What a method of the builder has done when it returns.
AddPost(kind) ==
    /\ Len(requests') = Len(requests) + 1
    /\ \A i \in DOMAIN requests : requests'[i] = requests[i]
    /\ requests'[Len(requests')] = Entry(kind, Len(requests))
    /\ returned' = Append(returned, Len(requests))

\* C16: the i-th sub-call of the request list carries the id i - 1 and is the
\* i-th one that was added, the ids returned are 0, 1, 2, ... in order, and
\* each method of the builder appends its sub-call with the id equal to the
\* number of sub-calls added before it and returns that id.
C16_SequentialIds ==
    /\ Len(returned) = Len(requests)
    /\ \A i \in DOMAIN requests :
         requests[i].RequestId = i - 1 /\ returned[i] = i - 1
    /\ \A kind \in Kinds : ~ENABLED (Add(kind, TRUE) /\ ~AddPost(kind))
    /\ \A kind \in Kinds : ~ENABLED (Add(kind, FALSE) /\ vars' # vars)

\* C16 witness: two different methods were used; the list holds their
\* sub-calls in the order of the calls.
C16_Witness ==
    /\ Len(requests) = 2 /\ returned = <<0, 1>>
    /\ requests[1].Body = "searchAssets" /\ requests[2].Body = "request"

\* The items of the response batch() has received.
Items == IF batch.response.has THEN batch.response.Responses ELSE << >>

\* The ids the response has an entry for.
Answered == {Items[i].RequestId : i \in DOMAIN Items}

\* C17: a batch() call that has received a response returns one result per
\* sub-call, the i-th result being that of the i-th sub-call; a sub-call whose
\* id has no entry in the response gets status code 0 and an undefined body;
\* and whatever entries are missing, the response is turned into results
\* rather than into a failure.
C17_OneResultPerSubCall ==
    /\ batch.pc = "done" =>
         /\ Len(batch.results) = Len(requests)
         /\ \A i \in DOMAIN requests :
              /\ batch.results[i].requestId = requests[i].RequestId
              /\ batch.results[i].request = requests[i]
              /\ requests[i].RequestId \notin Answered =>
                   /\ batch.results[i].statusCode = 0
                   /\ batch.results[i].body = "undefined"
    /\ batch.pc = "sent" =>
         \A response \in BatchResponses :
           /\ ENABLED BatchResponse(response)
           /\ ~ENABLED (BatchResponse(response) /\ batch'.pc # "done")

\* C17 witness: of two sub-calls only the second has an entry in the
\* response; the results are the default for the first and the entry's status
\* and body for the second.
C17_Witness ==
    /\ batch.pc = "done" /\ Len(requests) = 2 /\ Answered = {1}
    /\ batch.results[1].statusCode = 0 /\ batch.results[1].body = "undefined"
    /\ batch.results[2].statusCode = 200 /\ batch.results[2].body = "json"

\* The rearrangements of a sequence.
Rearrangements(s) == {[i \in DOMAIN s |-> s[f[i]]] : f \in Permutations(DOMAIN s)}

\* C18: when the entries of the response have distinct ids, every
\* rearrangement of the response gives the results batch() returned, and each
\* sub-call that has an entry carries the status and body of the entry with
\* its id, wherever that entry stands.
C18_CorrelationById ==
    (batch.pc = "done" /\ Cardinality(Answered) = Len(Items)) =>
      /\ \A r \in Rearrangements(Items) :
           CorrelateBatchResponses(requests, [has |-> TRUE, Responses |-> r])
             = batch.results
      /\ \A i \in DOMAIN requests, j \in DOMAIN Items :
           Items[j].RequestId = requests[i].RequestId =>
             /\ batch.results[i].statusCode = Items[j].ResponseCode
             /\ batch.results[i].body = Items[j].ResponseBody

\* C18 witness: the response lists the entry of the second sub-call before
\* that of the first, with different status codes, and each sub-call has the
\* status of its own entry.
C18_Witness ==
    /\ batch.pc = "done" /\ Len(requests) = 2 /\ Len(Items) = 2
    /\ Items[1].RequestId = 1 /\ Items[1].ResponseCode = 404
    /\ Items[2].RequestId = 0 /\ Items[2].ResponseCode = 200
    /\ batch.results[1].statusCode = 200 /\ batch.results[2].statusCode = 404

\* ----------------------------------------------------------------- SpecClient
\* A client on any transport, with up to MaxOps method calls in flight.
InitClient ==
    /\ cfg = DefaultCfg
    /\ bound = [calls |-> 0, attempts |-> 0, bodies |-> Bodies,
             results |-> FALSE]
    /\ InitTransport
    /\ InitBatch
    /\ transport \in Transports
    /\ ops = << >>
    /\ log = << >>
    /\ InitHttp

NextClient ==
    \/ \E valid \in BOOLEAN : ClientCall(valid)
    \/ \E o \in DOMAIN ops : ConnectResolved(o)
    \/ \E o \in DOMAIN ops : ConnectRejected(o)
    \/ \E o \in DOMAIN ops : ClientRequest(o)
    \/ \E o \in DOMAIN ops, ok \in BOOLEAN : RequestSettled(o, ok)
    \/ ConnectedChanges

SpecClient == InitClient /\ [][NextClient]_vars

\* The positions in the log of the calls of method m that call o has made.
Calls(o, m) == {i \in DOMAIN log : log[i] = [op |-> o, method |-> m]}

\* What a client method has done with a valid input when it first awaits.
EnsurePost ==
    LET o == Len(ops) + 1 IN
    IF transport.connectable /\ ~transport.connected
      THEN /\ log' = Append(log, [op |-> o, method |-> "connect"])
           /\ ops'[o].pc = "connecting"
      ELSE /\ log' = log
           /\ ops'[o].pc = "ensured"

\* C19: a client method with a valid input calls connect() exactly when the
\* transport is connectable and its connected flag is false, and calls nothing
\* otherwise; it makes at most one connect() and one request() call; and its
\* request() call is made only when it has called no connect() or the
\* connect() it called has resolved: never while that connect() is pending,
\* and never after it has rejected.
C19_ConnectBeforeRequest ==
    /\ ~ENABLED (ClientCall(TRUE) /\ ~EnsurePost)
    /\ \A o \in DOMAIN ops :
         /\ Cardinality(Calls(o, "connect")) <= 1
         /\ Cardinality(Calls(o, "request")) <= 1
         /\ Calls(o, "connect") = {} <=> ops[o].connect = "not called"
         /\ Calls(o, "request") # {} =>
              /\ ops[o].connect \in {"not called", "resolved"}
              /\ \A i \in Calls(o, "connect"), j \in Calls(o, "request") : i < j
         /\ ops[o].connect \in {"pending", "rejected"} =>
              /\ Calls(o, "request") = {}
              /\ ~ENABLED ClientRequest(o)

\* C19 witness: the first call found the transport not connected, awaited
\* connect() and then made its request; the second found it connected and made
\* its request without connect().
C19_Witness ==
    /\ Len(ops) = 2
    /\ log = << [op |-> 1, method |-> "connect"], [op |-> 1, method |-> "request"],
                [op |-> 2, method |-> "request"] >>
    /\ ops[1].connect = "resolved" /\ ops[2].connect = "not called"

\* What a client method has done with an input that fails validation.
InvalidPost ==
    /\ ops'[Len(ops) + 1].pc = "invalid"
    /\ \A o \in DOMAIN ops : ops'[o] = ops[o]
    /\ log' = log
    /\ transport' = transport
    /\ transportVars' = transportVars

\* C20: a client method whose input fails validation fails within the call
\* and leaves the transport and the calls made on it as they were; such a call
\* never makes a connect() or request() call later either.
C20_InvalidInputFailsFast ==
    /\ ~ENABLED (ClientCall(FALSE) /\ ~InvalidPost)
    /\ \A o \in DOMAIN ops :
         ops[o].pc = "invalid" =>
           /\ Calls(o, "connect") = {} /\ Calls(o, "request") = {}
           /\ ~ENABLED (ConnectResolved(o) \/ ConnectRejected(o) \/ ClientRequest(o)
                          \/ \E ok \in BOOLEAN : RequestSettled(o, ok))

\* C20 witness: a call failed validation on a transport that is not
\* connected, and the call after it is the first to call connect().
C20_Witness ==
    /\ Len(ops) = 2 /\ ops[1].pc = "invalid" /\ ops[2].pc = "connecting"
    /\ log = << [op |-> 2, method |-> "connect"] >>
    /\ ~transport.connected

\* ------------------------------------------------------------------- SpecHttp
\* An HTTP transport with up to MaxHttpCalls calls.
InitHttpSpec ==
    /\ cfg = DefaultCfg
    /\ bound = [calls |-> 0, attempts |-> 0, bodies |-> Bodies,
             results |-> FALSE]
    /\ InitTransport
    /\ InitBatch
    /\ InitUnrealRC
    /\ InitHttp

NextHttp ==
    \/ \E positive \in BOOLEAN, bad \in BOOLEAN : HttpRequest(positive, bad)
    \/ \E c \in DOMAIN httpCalls, status \in HttpStatuses : HttpFetched(c, status)
    \/ \E c \in DOMAIN httpCalls : HttpFetchFailed(c)
    \/ \E c \in DOMAIN httpCalls, parses \in BOOLEAN : HttpBody(c, parses)
    \/ \E c \in DOMAIN httpCalls : HttpTimerFired(c)
    \/ \E c \in DOMAIN httpCalls : HttpAborted(c)
    \/ HttpDispose

SpecHttp == InitHttpSpec /\ [][NextHttp]_vars

\* The event of call c leaves every other call, its controller and its timer
\* as they were.
OthersUntouched(c) ==
    \A d \in DOMAIN httpCalls \ {c} :
      /\ httpCalls'[d] = httpCalls[d]
      /\ (d \in controllers') = (d \in controllers)

\* The events of call c that make it fail.
FailureOf(c) ==
    \/ HttpTimerFired(c)
    \/ HttpAborted(c)
    \/ HttpFetchFailed(c)
    \/ HttpBody(c, FALSE)
    \/ (httpCalls[c].response \notin 200..299 /\ HttpBody(c, TRUE))

\* C21: the timer, the abort, the network failure or the non-success status
\* of one HTTP call changes that call only; and a call settles by what
\* happened to itself: it is resolved only with a success response of its
\* own, fails with a status only with the status of its own response, and
\* fails as timed out only when its own controller was aborted.
C21_HttpCallsIndependent ==
    /\ \A c \in DOMAIN httpCalls : ~ENABLED (FailureOf(c) /\ ~OthersUntouched(c))
    /\ \A c \in DOMAIN httpCalls :
         /\ httpCalls[c].outcome = "resolved" => httpCalls[c].response \in 200..299
         /\ httpCalls[c].outcome = "status" =>
              /\ httpCalls[c].response \notin 200..299
              /\ httpCalls[c].statusCode = httpCalls[c].response
         /\ httpCalls[c].outcome = "timed out" => httpCalls[c].aborted
         /\ (httpCalls[c].pc \in {"fetch", "body"} /\ ~httpCalls[c].aborted) =>
              /\ c \in controllers
              /\ httpCalls[c].timer = httpCalls[c].timeout

\* C21 witness: of two calls in flight together, the first timed out and the
\* second, whose timer is still set at that time, was later resolved by its
\* own response.
C21_Witness ==
    /\ Len(httpCalls) = 2
    /\ httpCalls[1].outcome = "timed out" /\ httpCalls[1].fired
    /\ httpCalls[2].outcome = "resolved" /\ httpCalls[2].timeout
    /\ ~httpCalls[2].aborted

\* C22 as stated: an active heartbeat timer implies that the transport is
\* connected and not disposed, and every close of the attached socket and
\* every dispose() leaves the heartbeat timer stopped.
C22_PingOnlyWhileOpen ==
    /\ pingTimer => (connectedState /\ ~disposed)
    /\ ~ENABLED (OnClose /\ pingTimer')
    /\ ~ENABLED (Dispose /\ pingTimer')

\* C23 as stated: in every state after dispose() no reconnect timer, no
\* heartbeat timer and no request timer of a call is active.
C23_NoTimersAfterDispose ==
    disposed => (~reconnectTimer /\ ~pingTimer /\ timers = {})

\* ---------------------------------------------------------------- SpecConnect
\* Every configuration, with the result of each connection attempt recorded.
InitConnect ==
    /\ cfg \in Configs
    /\ bound = [calls |-> ConnectCalls, attempts |-> MaxAttempts, bodies |-> {"json"},
                results |-> TRUE]
    /\ InitTransport
    /\ InitBatch
    /\ InitUnrealRC
    /\ InitHttp

SpecConnect == InitConnect /\ [][Next]_vars

\* What a failed connection attempt leaves behind.
FailPost ==
    /\ ~connectedState /\ ~connectedState'
    /\ socket' = socket
    /\ ~connectPromise' /\ waiters' = {}
    /\ connectResult' = [how |-> "rejected", waiters |-> waiters]
    /\ (cfg.autoReconnect /\ ~disposed) => reconnectTimer'
    /\ (~cfg.autoReconnect \/ disposed) => ~reconnectTimer'

\* C24: a connection attempt is in flight only while the transport is not
\* connected; when it fails by timeout, close or error, the transport is
\* still not connected, everyone awaiting connect() sees it rejected, and a
\* reconnect timer is pending afterwards when auto-reconnect is on and the
\* transport is not disposed; with auto-reconnect off no reconnect timer
\* exists in any state.
C24_FailedAttempt ==
    /\ connectPromise => (~connectedState /\ waiters # {})
    /\ ~ENABLED (ConnectTimeout /\ ~FailPost)
    /\ ~ENABLED (ConnectClosed /\ ~FailPost)
    /\ ~ENABLED (ConnectError /\ ~FailPost)
    /\ ~cfg.autoReconnect => ~reconnectTimer

\* C24 witness: an attempt awaited by a connect() caller and by a buffered
\* submission has failed; both saw the rejection and a reconnect is pending.
C24_Witness ==
    /\ connectResult = [how |-> "rejected", waiters |-> {"caller", "request"}]
    /\ ~connectedState /\ ~connectPromise /\ reconnectTimer /\ ~disposed

\* C25 as stated, read for a transport with auto-reconnect on that is not
\* disposed: every failed connection attempt and every close of an open
\* channel adds exactly one to the reconnect attempt counter, and every
\* successful open sets it to zero.
C25_CounterCountsFailures ==
    /\ (cfg.autoReconnect /\ ~disposed) =>
         /\ ~ENABLED (ConnectFailed /\ reconnectAttempt' # reconnectAttempt + 1)
         /\ connectedState =>
              ~ENABLED (OnClose /\ reconnectAttempt' # reconnectAttempt + 1)
    /\ ~ENABLED (ConnectOpen /\ reconnectAttempt' # 0)

\* C26 as stated: a frame whose identifier is not in the pending registry,
\* which is the case for every identifier of a settled call and for
\* identifiers never assigned, and a frame whose identifier is not a number
\* change nothing: no variable of the transport differs after onMessage.
C26_UnknownFrameIgnored ==
    /\ \A c \in DOMAIN calls :
         Settled(c) => calls[c].requestId \notin DOMAIN pendingRequests
    /\ \A id \in Ids \ DOMAIN pendingRequests, code \in ResponseCodes, body \in Bodies :
         ~ENABLED (OnMessage(id, code, body) /\ vars' # vars)
    /\ \A v \in NonNumbers, code \in ResponseCodes, body \in Bodies :
         ~ENABLED (OnMessageCoerced(v, code, body) /\ vars' # vars)
    /\ ~ENABLED (OnGarbage /\ vars' # vars)

\* A frame has been written in a state that is not that of an open channel.
WrittenOutsideOpen ==
    /\ wire' # wire
    /\ (~connectedState' \/ connectPromise' \/ reconnectTimer' \/ disposed')

\* C27 as stated: a step that writes a request frame ends with the transport
\* connected, no connection attempt in flight, no reconnect pending and the
\* transport not disposed, and the heartbeat writes a frame only in such a
\* state.
C27_WritesOnlyWhileOpen ==
    /\ \A b \in BOOLEAN : ~ENABLED (Request(b) /\ WrittenOutsideOpen)
    /\ ~ENABLED (ConnectOpen /\ WrittenOutsideOpen)
    /\ (ENABLED PingTick /\ PingSends) =>
         (connectedState /\ ~connectPromise /\ ~reconnectTimer /\ ~disposed)

\* What the flush of onOpen has done when it has gone through the first n
\* calls of the buffer.
FlushPost(n) ==
    LET q == queuedRequests
        sent == SelectSeq(SubSeq(q, 1, n), LAMBDA c : ~calls[c].bad)
    IN
    /\ queuedRequests' = SubSeq(q, n + 1, Len(q))
    /\ Len(wire') = Len(wire) + Len(sent)
    /\ SubSeq(wire', 1, Len(wire)) = wire
    /\ \A i \in DOMAIN sent : wire'[Len(wire) + i].call = sent[i]
    /\ \A i \in 1..n :
         IF calls[q[i]].bad
           THEN calls'[q[i]].outcome = "send failed"
           ELSE /\ calls'[q[i]].outcome = "none"
                /\ calls[q[i]].requestId \in DOMAIN pendingRequests'
                /\ pendingRequests'[calls[q[i]].requestId] = q[i]
                /\ q[i] \in timers'
    /\ \A i \in (n + 1)..Len(q) :
         /\ calls'[q[i]] = calls[q[i]]
         /\ calls[q[i]].outcome = "none"
         /\ Writes(wire', q[i]) = 0
         /\ q[i] \notin timers'
    /\ n < Len(q) => socket' = "CLOSING"

\* C28: every open flushes the buffer from its head: the calls it goes
\* through are written in buffer order and are pending, and when the channel
\* becomes unavailable during the flush the calls not yet reached stay in the
\* buffer, unsettled, unwritten and in their order, so that the flush of the
\* next open starts with them; a flush that is not interrupted empties the
\* buffer.
C28_InterruptedFlush ==
    /\ ~ENABLED (ConnectOpen /\ ~(\E n \in 0..Len(queuedRequests) : FlushPost(n)))
    /\ queuedRequests # << >> =>
         /\ ~ENABLED (ConnectOpen /\ FlushPost(0))
         /\ connectPromise =>
              ENABLED (ConnectOpen /\ FlushPost(Len(queuedRequests)))

\* C28 witness: the flush of two buffered calls was interrupted after the
\* first: the first is written and pending, the second is still buffered
\* behind a closing socket.
C28_Witness ==
    /\ socket = "CLOSING" /\ connectedState
    /\ queuedRequests = <<2>> /\ calls[2].outcome = "none"
    /\ Len(wire) = 1 /\ wire[1].call = 1 /\ wire[1].via = "flush"
    /\ calls[1].requestId \in DOMAIN pendingRequests /\ 1 \in timers

\* C29: the calls with an active request timer are exactly the calls with an
\* entry in the pending registry, each entry is under the identifier of its
\* call, and a settled call has neither an entry nor a timer.
C29_TimerIffPending ==
    /\ timers = Range(pendingRequests)
    /\ \A id \in DOMAIN pendingRequests : calls[pendingRequests[id]].requestId = id
    /\ \A c \in DOMAIN calls : Settled(c) => c \notin timers

\* C29 witness: the first call was pending when the channel closed and is
\* rejected, without timer; the second is pending on the next connection, and
\* it is the only call with a timer.
C29_Witness ==
    /\ Len(calls) = 2 /\ calls[1].outcome = "disconnected"
    /\ DOMAIN pendingRequests = {calls[2].requestId}
    /\ timers = {2} /\ socket = "OPEN"

\* The calls other than those sent with identifier id are as they were.
OnlyCallOf(id) ==
    \A c \in DOMAIN calls : calls[c].requestId # id => calls'[c] = calls[c]

\* C30: no two calls share an identifier; a frame that the transport reads as
\* carrying identifier id changes no call but the one sent with id, and the
\* request timer of a call changes no call but its own. This holds for the
\* identifiers of calls settled on an earlier connection as well.
C30_SettlesOwnCallOnly ==
    /\ \A c, d \in DOMAIN calls : calls[c].requestId = calls[d].requestId => c = d
    /\ \A id \in Ids, code \in ResponseCodes, body \in Bodies :
         ~ENABLED (OnMessage(id, code, body) /\ ~OnlyCallOf(id))
    /\ \A v \in NonNumbers, code \in ResponseCodes, body \in Bodies :
         ~ENABLED (OnMessageCoerced(v, code, body) /\ ~OnlyCallOf(ToNumber(v)))
    /\ \A c \in DOMAIN calls :
         ~ENABLED (RequestTimeout(c) /\ ~OnlyCallOf(calls[c].requestId))

\* C30 witness: the first call was written on a connection that was lost and
\* is rejected; the second was written on the next connection and resolved by
\* its own frame; a stale frame for the first identifier can arrive there.
C30_Witness ==
    /\ Len(calls) = 2 /\ Writes(wire, 1) = 1 /\ Writes(wire, 2) = 1
    /\ calls[1].outcome = "disconnected" /\ calls[2].outcome = "resolved"
    /\ socket = "OPEN"
    /\ ENABLED OnMessage(calls[1].requestId, 200, "json")

\* A submission that puts its call in the outbound buffer.
Buffers(b) == Request(b) /\ Len(queuedRequests') > Len(queuedRequests)

\* C31 as stated: under the queue policy, right after a submission that puts
\* its call in the outbound buffer of a transport that is not disposed a
\* connection attempt is in flight; and with auto-reconnect enabled, whenever
\* the buffer of such a transport is not empty a connection attempt is in
\* flight or a reconnect timer is pending.
C31_BufferedMeansConnecting ==
    /\ \A b \in BOOLEAN : ~ENABLED (Buffers(b) /\ ~disposed /\ ~connectPromise')
    /\ (cfg.autoReconnect /\ ~disposed /\ queuedRequests # << >>) =>
         (connectPromise \/ reconnectTimer)

\* What the failure of an attempt that a buffered submission awaits leaves
\* behind when autoReconnect is off.
FailedQueuePost ==
    /\ queuedRequests' = << >>
    /\ ~reconnectTimer'
    /\ \A c \in DOMAIN calls :
         IF c \in Range(queuedRequests)
           THEN /\ calls[c].outcome = "none"
                /\ calls'[c].outcome = "disconnected"
                /\ calls'[c].settles = 1
           ELSE calls'[c] = calls[c]

\* C32: with auto-reconnect disabled and the queue policy, the failure of a
\* connection attempt that a buffered submission has started or joined
\* rejects every call then in the outbound buffer with a disconnected error,
\* leaves the buffer empty and schedules no reconnect; every buffered
\* submission on a transport that is not connected has such an attempt.
C32_FailedAttemptRejectsBuffer ==
    (~cfg.autoReconnect /\ cfg.disconnectedBehavior = "queue") =>
      /\ ("request" \in waiters) => ~ENABLED (ConnectFailed /\ ~FailedQueuePost)
      /\ \A b \in BOOLEAN :
           ~ENABLED (Buffers(b) /\ ~connectedState /\ ~disposed
                       /\ ~(connectPromise' /\ "request" \in waiters'))

\* C32 witness: two calls were buffered while an attempt was in flight, the
\* attempt failed, and both are rejected as disconnected without having been
\* written; no attempt and no reconnect timer is left.
C32_Witness ==
    /\ ~cfg.autoReconnect /\ cfg.disconnectedBehavior = "queue" /\ ~disposed
    /\ Len(calls) = 2 /\ wire = << >> /\ queuedRequests = << >>
    /\ \A c \in DOMAIN calls : calls[c].outcome = "disconnected"
    /\ ~connectPromise /\ ~reconnectTimer /\ socket = "none"

\* The step has put a call in the pending registry.
Registers == DOMAIN pendingRequests' \ DOMAIN pendingRequests # {}

\* The step leaves the transport not connected, with an empty registry and
\* every call that was pending settled and without timer.
DisconnectPost ==
    /\ ~connectedState'
    /\ pendingRequests' = << >>
    /\ \A c \in Range(pendingRequests) :
         calls'[c].outcome # "none" /\ c \notin timers'

\* C33: whenever the transport is not connected the pending registry is
\* empty; a submission registers its call only on a connected transport with
\* an OPEN socket, an open registers the calls it flushes as it connects, and
\* the close of the attached socket and dispose() reject and remove every
\* entry in the step that makes the transport not connected.
C33_NotConnectedNoPending ==
    /\ ~connectedState => pendingRequests = << >>
    /\ \A b \in BOOLEAN :
         ~ENABLED (Request(b) /\ Registers /\ ~(connectedState /\ socket = "OPEN"))
    /\ ~ENABLED (ConnectOpen /\ Registers /\ ~(connectedState' /\ socket' # "none"))
    /\ ~ENABLED (OnClose /\ ~DisconnectPost)
    /\ ~ENABLED (Dispose /\ ~DisconnectPost)

\* C33 witness: the first call was pending when the channel closed, the
\* second was pending on the next connection when dispose() was called; both
\* are rejected and the registry of the disconnected transport is empty.
C33_Witness ==
    /\ Len(calls) = 2 /\ Writes(wire, 1) = 1 /\ Writes(wire, 2) = 1
    /\ calls[1].outcome = "disconnected" /\ calls[2].outcome = "disposed"
    /\ disposed /\ ~connectedState /\ pendingRequests = << >>

\* C34: in every reachable state the outbound buffer holds at most
\* maxQueueSize calls, each of them once; no submission and no open, whether
\* its flush is interrupted and puts a call back or not, leaves more.
C34_QueueWithinLimit ==
    /\ Len(queuedRequests) <= cfg.maxQueueSize
    /\ \A i, j \in DOMAIN queuedRequests :
         queuedRequests[i] = queuedRequests[j] => i = j
    /\ ~ENABLED (ConnectOpen /\ Len(queuedRequests') >= Len(queuedRequests)
                   /\ queuedRequests # << >>)

\* C34 witness: a buffer of two calls, the limit, was flushed and the flush
\* interrupted after the first call: the second was shifted off and put
\* back, and is alone in the buffer behind the closing socket.
C34_Witness ==
    /\ cfg.maxQueueSize = 2 /\ socket = "CLOSING"
    /\ Len(queuedRequests) = 1 /\ Writes(wire, queuedRequests[1]) = 0
    /\ \E i \in DOMAIN wire : wire[i].via = "flush"

\* C35 as stated: in every state after dispose() the connected flag is false
\* and no socket is attached to the transport, also when a connection attempt
\* that was in flight at dispose() succeeds afterwards.
C35_DisposedNeverConnected ==
    disposed => (~connectedState /\ socket = "none")

\* The call made by the step is rejected in the step, is not in the outbound
\* buffer and no frame was written.
RejectedUnbuffered ==
    LET c == Len(calls') IN
    /\ calls'[c].outcome \notin {"none", "resolved"}
    /\ c \notin Range(queuedRequests')
    /\ wire' = wire

\* C36 as stated: a call submitted through request() after dispose() is
\* rejected and is neither buffered nor written, and connect() on a disposed
\* transport starts no attempt and opens no socket.
C36_DisposedRejectsCalls ==
    disposed =>
      /\ \A b \in BOOLEAN : ~ENABLED (Request(b) /\ ~RejectedUnbuffered)
      /\ ~ENABLED (Connect /\ (sockets' # sockets \/ connectPromise' # connectPromise))

\* C37 as stated: no reconnect timer is pending while the channel is open;
\* an open, whoever started its attempt, leaves no reconnect timer that was
\* scheduled before it. (reconnectTimer is one field: there is never more
\* than one timer the transport knows of.)
C37_NoTimerWhileOpen ==
    /\ (connectedState /\ socket = "OPEN") => ~reconnectTimer
    /\ ~ENABLED (ConnectOpen /\ reconnectTimer')

\* C38: a call in the outbound buffer has no timeout timer, is unsettled and
\* its timeout cannot fire; a timer is set only for a call that has been
\* written, and only a written call is ever settled with the timeout error.
C38_NoTimeoutWhileBuffered ==
    /\ \A c \in Range(queuedRequests) :
         /\ c \notin timers
         /\ calls[c].outcome = "none"
         /\ ~ENABLED RequestTimeout(c)
    /\ \A b \in BOOLEAN : ~ENABLED (Buffers(b) /\ Len(calls') \in timers')
    /\ \A c \in DOMAIN calls :
         (c \in timers \/ calls[c].outcome = "timed out") => Writes(wire, c) = 1

\* C38 witness: the first call was written and timed out; the channel has
\* closed, two reconnects have been scheduled since, and the second call is
\* still buffered, unsettled and without timer.
C38_Witness ==
    /\ Len(calls) = 2 /\ calls[1].outcome = "timed out"
    /\ queuedRequests = <<2>> /\ calls[2].outcome = "none" /\ timers = {}
    /\ socket = "none" /\ ~connectedState /\ reconnectAttempt = 2

\* C39 as stated: an HTTP call fails with the timed-out error only if its
\* own timeout timer fired, and once a call has settled its controller is
\* not in the in-flight set and its timer is cleared.
C39_TimedOutOnlyByOwnTimer ==
    \A c \in DOMAIN httpCalls :
      /\ httpCalls[c].outcome = "timed out" => httpCalls[c].fired
      /\ httpCalls[c].pc = "done" => (c \notin controllers /\ ~httpCalls[c].timer)

====
